---- MODULE Spec2Model ----
(***************************************************************************)
(* focker: a toy container runtime (src/main.go, second revision, lines    *)
(* 150-392).  One invocation is modelled: the process the user starts      *)
(* ("p0"), the process p0 re-executes with the _child command ("p1"), and  *)
(* the user command started by whichever process runs the bootstrap.       *)
(*                                                                         *)
(* A string is a sequence of symbols.  The symbols are characters ("-",    *)
(* "v", "=", ":", "/", ".", the letters and digits) and a few whole words  *)
(* ("sh", "containers", "proc") that stand for a run of ordinary           *)
(* characters with no separator in it.                                     *)
(***************************************************************************)
EXTENDS Integers, Sequences, FiniteSets, TLC

VARIABLES
    proc,       \* per process: position, os.Args, locals of main() and run()
    user,       \* the user command's process (started by the bootstrap)
    hostname,   \* UTS namespace -> hostname
    mounts,     \* mount namespace -> mount table (sequence of mounts)
    root,       \* mount namespace -> root directory of its processes
    propagation,\* mount namespace -> "shared" | "private" | "none" (not created)
    nextPid,    \* PID namespace -> next process id the kernel hands out
    trace       \* every step issued so far, in order: who, what, on what, result

vars == <<proc, user, hostname, mounts, root, propagation, nextPid, trace>>

(***************************************************************************)
(* Bounds and input sets                                                   *)
(***************************************************************************)
\* longest os.Args[2:] that is enumerated
MaxArgs == 3

Procs == {"p0", "p1"}
Namespaces == {"host", "new", "new2"}

\* the hostname of the machine and the pid of p0, before the invocation
HostName == <<"host">>
HostRootMount == [source |-> <<"rootdev">>, target |-> <<"/">>, fstype |-> "ext4", flags |-> {}]

\* the host's mounts propagate to their peers (what systemd sets up)
HostPropagation == "shared"

VolumeFlag == <<"-", "v", "=">>

\* tokens a user can put after the command word: two words, two well-formed
\* volume mappings (the second with the target ".."), a mapping without a
\* colon and a mapping whose two components are both empty
Tokens ==
    { <<"sh">>, <<"x">>,
      VolumeFlag \o <<"a", ":", "b">>,
      VolumeFlag \o <<"c", ":", "..">>,
      VolumeFlag \o <<"a">>,
      VolumeFlag \o <<":">> }

\* first words of the command line (os.Args[1])
Commands == {<<"run">>, <<"_child">>, <<"ps">>, <<"bogus">>}

\* states the random source can be in when the identity is generated
Seeds == {0, 1}

\* exit codes a user command reports
ExitCodes == {0, 1, 255}

RECURSIVE SeqsUpTo(_, _)
SeqsUpTo(S, n) ==
    IF n = 0 THEN {<<>>}
    ELSE LET shorter == SeqsUpTo(S, n - 1)
         IN  shorter \cup {Append(s, x) : s \in {t \in shorter : Len(t) = n - 1}, x \in S}

(***************************************************************************)
(* Pure helpers of the Go standard library, as the program uses them       *)
(***************************************************************************)
\* strings.HasPrefix
HasPrefix(s, prefix) ==
    /\ Len(s) >= Len(prefix)
    /\ SubSeq(s, 1, Len(prefix)) = prefix

\* strings.TrimPrefix
TrimPrefix(s, prefix) ==
    IF HasPrefix(s, prefix) THEN SubSeq(s, Len(prefix) + 1, Len(s)) ELSE s

\* F at the value of e: e is evaluated once, before F is applied (a LET
\* is evaluated at each use, which a recursion through LETs multiplies)
With(e, F(_)) == CHOOSE r \in {F(x) : x \in {e}} : TRUE

\* strings.Split(s, ":"): the pieces between the separators, empty pieces kept
RECURSIVE Split(_, _)
Split(s, sep) ==
    IF \A i \in 1..Len(s) : s[i] # sep THEN <<s>>
    ELSE LET k == CHOOSE i \in 1..Len(s) : s[i] = sep /\ \A j \in 1..(i - 1) : s[j] # sep
         IN  With(SubSeq(s, k + 1, Len(s)),
                  LAMBDA rest : <<SubSeq(s, 1, k - 1)>> \o Split(rest, sep))

\* the path components filepath.Clean keeps: not the empty ones, not "."
SelectComponents(comps) == SelectSeq(comps, LAMBDA c : c # <<>> /\ c # <<".">>)

\* lexical resolution of ".." as filepath.Clean does it: ".." removes the
\* component before it; at the top of a rooted path it is dropped, at the top
\* of a relative path it is kept
RECURSIVE ResolveDotDot(_, _)
ResolveDotDot(comps, rooted) ==
    IF comps = <<>> THEN <<>>
    ELSE With(SubSeq(comps, 1, Len(comps) - 1), LAMBDA front :
         With(ResolveDotDot(front, rooted), LAMBDA init :
            LET last == comps[Len(comps)]
            IN  IF last # <<"..">> THEN Append(init, last)
                ELSE IF init # <<>> /\ init[Len(init)] # <<"..">>
                     THEN SubSeq(init, 1, Len(init) - 1)
                ELSE IF rooted THEN init
                ELSE Append(init, last)))

RECURSIVE JoinComponents(_)
JoinComponents(comps) ==
    IF comps = <<>> THEN <<>>
    ELSE IF Len(comps) = 1 THEN comps[1]
    ELSE With(Tail(comps), LAMBDA rest : comps[1] \o <<"/">> \o JoinComponents(rest))

\* filepath.Clean
Clean(path) ==
    IF path = <<>> THEN <<".">>
    ELSE With(path, LAMBDA p :
         With(p[1] = "/", LAMBDA rooted :
         With(Split(p, "/"), LAMBDA pieces :
         With(SelectComponents(pieces), LAMBDA kept :
         With(ResolveDotDot(kept, rooted), LAMBDA comps :
            IF rooted THEN <<"/">> \o JoinComponents(comps)
            ELSE IF comps = <<>> THEN <<".">>
            ELSE JoinComponents(comps))))))

\* filepath.Join(a, b): the non-empty elements joined by "/" and cleaned
Join(a, b) ==
    IF a = <<>> /\ b = <<>> THEN <<>>
    ELSE IF a = <<>> THEN Clean(b)
    ELSE IF b = <<>> THEN Clean(a)
    ELSE Clean(a \o <<"/">> \o b)

\* const containersDir = "./containers"
containersDir == <<".", "/", "containers">>

\* const rootFsTarball = "./ubuntu-base-22.04-base-amd64.tar.gz"
rootFsTarball == <<".", "/", "ubuntu-base-22.04-base-amd64.tar.gz">>

\* const randomStringChars
randomStringChars ==
    << "a", "b", "c", "d", "e", "f", "g", "h", "i", "j", "k", "l", "m",
       "n", "o", "p", "q", "r", "s", "t", "u", "v", "w", "x", "y", "z",
       "A", "B", "C", "D", "E", "F", "G", "H", "I", "J", "K", "L", "M",
       "N", "O", "P", "Q", "R", "S", "T", "U", "V", "W", "X", "Y", "Z",
       "0", "1", "2", "3", "4", "5", "6", "7", "8", "9" >>

\* rand.Intn(n) at the i-th draw of a generator seeded with seed: some value
\* in 0..n-1 that the seed and the position determine
Intn(n, seed, i) == ((seed + 1) * (i + 5) + seed) % n

\* a randomString whose loop stops one character short
randomStringShort(length, seed) ==
    IF length < 1 THEN <<>>
    ELSE [i \in 1..(length - 1) |->
            randomStringChars[Intn(Len(randomStringChars), seed, i) + 1]]

\* randomString(length), for the generator state the process happens to have
randomString(length, seed) ==
    IF length < 1 THEN <<>>
    ELSE [i \in 1..length |-> randomStringChars[Intn(Len(randomStringChars), seed, i) + 1]]

(***************************************************************************)
(* Process state                                                           *)
(***************************************************************************)
\* cmd.ProcessState: nil until the started process has been waited for
NilProcessState == [kind |-> "nil", code |-> 0]

NoSysProcAttr == [Cloneflags |-> {}, Unshareflags |-> {}]

NoUser == [state |-> "none", parent |-> "p0", pid |-> 0, ns |-> "host", name |-> <<>>,
           status |-> NilProcessState]

\* a process of this program at the entry of main(), with os.Args[1:] = osArgs
NewProc(pc, osArgs, ns, pid) ==
    [ pc |-> pc, osArgs |-> osArgs, ns |-> ns, pid |-> pid,
      args |-> <<>>, volumes |-> <<>>, isChild |-> FALSE,
      commandName |-> <<>>, commandArgs |-> <<>>, sysProcAttr |-> NoSysProcAttr,
      containerId |-> <<>>, rootfsDir |-> <<>>, i |-> 0, parts |-> <<>>,
      mountedVolumes |-> <<>>, deferred |-> <<>>,
      processState |-> NilProcessState, exitCode |-> 0, fatal |-> "",
      cwd |-> <<".">> ]

HostNs == [uts |-> "host", pid |-> "host", mnt |-> "host"]

\* the command lines the user can type: nothing, a command word alone, or
\* run/_child followed by up to MaxArgs tokens
CommandLines ==
    {<<>>} \cup {<<c>> : c \in Commands}
           \cup {<<c>> \o t : c \in {<<"run">>, <<"_child">>}, t \in SeqsUpTo(Tokens, MaxArgs)}

Init ==
    /\ \E line \in CommandLines :
         proc = [p \in Procs |->
                   IF p = "p0" THEN NewProc("init", line, HostNs, 100)
                   ELSE NewProc("unborn", <<>>, HostNs, 0)]
    /\ user = NoUser
    /\ hostname = [n \in Namespaces |-> IF n = "host" THEN HostName ELSE <<>>]
    /\ mounts = [n \in Namespaces |-> IF n = "host" THEN <<HostRootMount>> ELSE <<>>]
    /\ root = [n \in Namespaces |-> <<"/">>]
    /\ propagation = [n \in Namespaces |-> IF n = "host" THEN HostPropagation ELSE "none"]
    /\ nextPid = [n \in Namespaces |-> IF n = "host" THEN 101 ELSE 1]
    /\ trace = <<>>

\* one entry of the trace: the process, the statement it is at, the operation
Event(p, op, source, target, fstype, flags, ok) ==
    [proc |-> p, step |-> proc[p].pc, op |-> op, source |-> source, target |-> target,
     fstype |-> fstype, flags |-> flags, ok |-> ok]

(***************************************************************************)
(* Exits                                                                   *)
(***************************************************************************)
\* the status log.Fatal exits with
LogFatalCode == 1

\* os.Exit(code): the status the parent sees is the low 8 bits
ExitStatus(code) == code % 256

\* an exitIfError that only reports the error
ExitIfErrorIgnored(ok) == FALSE

\* exitIfError(err, label): err != nil is fatal
ExitIfError(ok) == ~ok

\* log.Fatal: print and os.Exit(1); deferred functions do not run
Fatal(pr, label) ==
    [pr EXCEPT !.pc = "exited", !.exitCode = ExitStatus(LogFatalCode), !.fatal = label]

\* the previous revision's abortIfError(cmd.Run()): status 1 for any failure
ExitCodeAbortIfError(ps) == IF ps.kind = "exited" /\ ps.code = 0 THEN 0 ELSE 1

\* an ExitCode() that reports success when there is no process state
ExitCodeNilZero(ps) == IF ps.kind = "exited" THEN ps.code ELSE 0

\* (*ProcessState).ExitCode(): -1 for a nil receiver and for a process that
\* did not exit normally (killed by a signal)
ExitCode(ps) == IF ps.kind = "exited" THEN ps.code ELSE -1

(***************************************************************************)
(* main()                                                                  *)
(***************************************************************************)
\* a main() that stops looking for -v= tokens at the first other token
RECURSIVE ParseVolumesLeading(_)
ParseVolumesLeading(tokens) ==
    IF tokens = <<>> THEN <<>>
    ELSE IF HasPrefix(Head(tokens), VolumeFlag)
         THEN <<TrimPrefix(Head(tokens), VolumeFlag)>> \o ParseVolumesLeading(Tail(tokens))
         ELSE <<>>

\* the -v= tokens of os.Args[2:], prefix trimmed, in order
RECURSIVE ParseVolumes(_)
ParseVolumes(tokens) ==
    IF tokens = <<>> THEN <<>>
    ELSE IF HasPrefix(Head(tokens), VolumeFlag)
         THEN <<TrimPrefix(Head(tokens), VolumeFlag)>> \o ParseVolumes(Tail(tokens))
         ELSE ParseVolumes(Tail(tokens))

\* a main() that passes every token on as an argument
ParseArgsKeepAll(tokens) == tokens

\* the other tokens of os.Args[2:], in order
RECURSIVE ParseArgs(_)
ParseArgs(tokens) ==
    IF tokens = <<>> THEN <<>>
    ELSE IF HasPrefix(Head(tokens), VolumeFlag)
         THEN ParseArgs(Tail(tokens))
         ELSE <<Head(tokens)>> \o ParseArgs(Tail(tokens))

\* the comparison made with the wrong command word
IsChildCommandInverted(command) == command = <<"run">>

\* command == "_child"
IsChildCommand(command) == command = <<"_child">>

\* func init(): the containers directory is created before main() runs
GoInit(p) ==
    /\ proc[p].pc = "init"
    /\ \E ok \in BOOLEAN :
         /\ trace' = Append(trace, Event(p, "mkdirall", <<>>, containersDir, "", {}, ok))
         /\ proc' = [proc EXCEPT ![p] =
                IF ExitIfError(ok) THEN Fatal(@, "init containersDir")
                ELSE [@ EXCEPT !.pc = "main"]]
    /\ UNCHANGED <<user, hostname, mounts, root, propagation, nextPid>>

\* main(): the switch on os.Args[1]
Main(p) ==
    /\ proc[p].pc = "main"
    /\ LET pr == proc[p]
           command == pr.osArgs[1]
           rest == Tail(pr.osArgs)
       IN  proc' = [proc EXCEPT ![p] =
                IF Len(pr.osArgs) < 1 THEN Fatal(pr, "a command is required")
                ELSE IF command \in {<<"run">>, <<"_child">>}
                     THEN [pr EXCEPT !.pc = "run",
                                     !.volumes = ParseVolumes(rest),
                                     !.args = ParseArgs(rest),
                                     !.isChild = IsChildCommand(command)]
                ELSE IF command = <<"ps">> THEN [pr EXCEPT !.pc = "ps"]
                ELSE Fatal(pr, "bad command")]
    /\ UNCHANGED <<user, hostname, mounts, root, propagation, nextPid, trace>>

\* ps(): list the containers directory, then main returns (status 0)
Ps(p) ==
    /\ proc[p].pc = "ps"
    /\ \E ok \in BOOLEAN :
         /\ trace' = Append(trace, Event(p, "readdir", <<>>, containersDir, "", {}, ok))
         /\ proc' = [proc EXCEPT ![p] =
                IF ExitIfError(ok) THEN Fatal(@, "ps(): os.ReadDir()")
                ELSE [@ EXCEPT !.pc = "exited", !.exitCode = 0]]
    /\ UNCHANGED <<user, hostname, mounts, root, propagation, nextPid>>

(***************************************************************************)
(* run(): entry, and the launcher's side                                   *)
(***************************************************************************)
\* the procfs mount placed before the call of pivotRoot
BootstrapOrderProcFirst ==
    << "sethostname", "unzip_mkdir", "unzip_tar", "volumes",
       "procfs", "pivot_mount", "pivot_mkdir", "pivot_root", "pivot_chdir", "start" >>

\* the statements of the isChild branch of run(), in program order, then cmd.Run()
BootstrapOrder ==
    << "sethostname", "unzip_mkdir", "unzip_tar", "volumes",
       "pivot_mount", "pivot_mkdir", "pivot_root", "pivot_chdir", "procfs", "start" >>

\* the statement that follows step in run()
After(step) ==
    LET k == CHOOSE i \in 1..Len(BootstrapOrder) : BootstrapOrder[i] = step
    IN  BootstrapOrder[k + 1]

\* os.Executable()
ExecutablePath == <<"/", "focker">>

\* the volumes passed on without the -v= in front
VolumeArgsBare(volumes) == volumes

\* "-v=" + vol for every volume, in order
RECURSIVE VolumeArgs(_)
VolumeArgs(volumes) ==
    IF volumes = <<>> THEN <<>>
    ELSE <<VolumeFlag \o Head(volumes)>> \o VolumeArgs(Tail(volumes))

\* the argument list of the re-executed process: _child, the volumes, the args
ReexecArgs(volumes, args) == <<<<"_child">>>> \o VolumeArgs(volumes) \o args

\* a SysProcAttr without Unshareflags
UnshareflagsNone == {}

\* cmd.SysProcAttr of the launcher's command
Cloneflags == {"CLONE_NEWUTS", "CLONE_NEWPID", "CLONE_NEWNS"}
Unshareflags == {"CLONE_NEWNS"}

\* run(), up to and including exec.Command and, in the launcher, SysProcAttr
RunEntry(p) ==
    /\ proc[p].pc = "run"
    /\ \E ok \in BOOLEAN :
         LET pr == proc[p]
         IN  proc' = [proc EXCEPT ![p] =
                 IF Len(pr.args) = 0 THEN Fatal(pr, "at least 1 argument is required")
                 ELSE IF pr.isChild
                      THEN [pr EXCEPT !.commandName = pr.args[1],
                                      !.commandArgs = Tail(pr.args),
                                      !.pc = BootstrapOrder[1]]
                 ELSE IF ExitIfError(ok) THEN Fatal(pr, "os.Executable()")
                 ELSE [pr EXCEPT !.commandName = ExecutablePath,
                                 !.commandArgs = ReexecArgs(pr.volumes, pr.args),
                                 !.sysProcAttr = [Cloneflags |-> Cloneflags,
                                                  Unshareflags |-> Unshareflags],
                                 !.pc = "start"]]
    /\ UNCHANGED <<user, hostname, mounts, root, propagation, nextPid, trace>>

\* the namespace a new process gets for one kind: a new one if the clone flag
\* asks for it, its parent's otherwise
ChildNs(flags, flag, parentNs) == IF flag \in flags THEN "new" ELSE parentNs

\* the propagation of the new mount namespace: Go's fork marks / private
\* (MS_REC|MS_PRIVATE) when Unshareflags has CLONE_NEWNS; otherwise the copy
\* stays a peer of the namespace it was copied from
ChildPropagation(unshareflags, parentPropagation) ==
    IF "CLONE_NEWNS" \in unshareflags THEN "private" ELSE parentPropagation

\* cmd.Run() in the launcher, first half: clone the program with the _child
\* arguments; the new process starts at func init()
SpawnChild(p) ==
    /\ p = "p0"
    /\ proc[p].pc = "start"
    /\ ~proc[p].isChild
    /\ \E ok \in BOOLEAN :
         LET pr == proc[p]
             flags == pr.sysProcAttr.Cloneflags
             ns == [uts |-> ChildNs(flags, "CLONE_NEWUTS", pr.ns.uts),
                    pid |-> ChildNs(flags, "CLONE_NEWPID", pr.ns.pid),
                    mnt |-> ChildNs(flags, "CLONE_NEWNS", pr.ns.mnt)]
         IN  /\ trace' = Append(trace, Event(p, "clone", pr.commandName, <<>>, "", flags, ok))
             /\ IF ok
                THEN /\ proc' = [proc EXCEPT
                            ![p].pc = "wait",
                            !["p1"] = NewProc("init", pr.commandArgs, ns, nextPid[ns.pid])]
                     /\ nextPid' = [nextPid EXCEPT ![ns.pid] = @ + 1]
                     /\ hostname' = [hostname EXCEPT ![ns.uts] = hostname[pr.ns.uts]]
                     /\ mounts' = [mounts EXCEPT ![ns.mnt] = mounts[pr.ns.mnt]]
                     /\ root' = [root EXCEPT ![ns.mnt] = root[pr.ns.mnt]]
                     /\ propagation' = [propagation EXCEPT ![ns.mnt] =
                            IF ns.mnt = pr.ns.mnt THEN @
                            ELSE ChildPropagation(pr.sysProcAttr.Unshareflags,
                                                  propagation[pr.ns.mnt])]
                ELSE /\ proc' = [proc EXCEPT ![p].pc = "exit"]
                     /\ UNCHANGED <<nextPid, hostname, mounts, root, propagation>>
    /\ UNCHANGED user

\* a cmd.Start() in place of cmd.Run(): it returns without waiting
StartReturns(childPc) == TRUE

\* cmd.Run() returns once the process it started has exited
RunReturns(childPc) == childPc = "exited"

\* cmd.Run() in the launcher, second half: wait for the child; ProcessState
\* holds the status it exited with
WaitChild(p) ==
    /\ p = "p0"
    /\ proc[p].pc = "wait"
    /\ ~proc[p].isChild
    /\ RunReturns(proc["p1"].pc)
    /\ proc' = [proc EXCEPT ![p].pc = "exit",
                            ![p].processState = [kind |-> "exited", code |-> proc["p1"].exitCode]]
    /\ UNCHANGED <<user, hostname, mounts, root, propagation, nextPid, trace>>

(***************************************************************************)
(* run(): the child bootstrap                                              *)
(***************************************************************************)
\* the length of the random part of the container id
IdLength == 16

\* "b-" + randomString(16)
ContainerId(seed) == <<"b", "-">> \o randomString(IdLength, seed)

\* syscall.Sethostname([]byte(containerId))
SetHostname(p) ==
    /\ proc[p].pc = "sethostname"
    /\ \E seed \in Seeds, ok \in BOOLEAN :
         LET id == ContainerId(seed)
         IN  /\ trace' = Append(trace, Event(p, "sethostname", <<>>, id, "", {}, ok))
             /\ hostname' = IF ok THEN [hostname EXCEPT ![proc[p].ns.uts] = id] ELSE hostname
             /\ proc' = [proc EXCEPT ![p] =
                    IF ExitIfError(ok) THEN Fatal(@, "set hostname")
                    ELSE [@ EXCEPT !.containerId = id,
                                   !.rootfsDir = Join(containersDir, id),
                                   !.pc = After("sethostname")]]
    /\ UNCHANGED <<user, mounts, root, propagation, nextPid>>

\* unzipRootFsTarball: os.MkdirAll(dest, 0700)
UnzipMkdir(p) ==
    /\ proc[p].pc = "unzip_mkdir"
    /\ \E ok \in BOOLEAN :
         /\ trace' = Append(trace, Event(p, "mkdirall", <<>>, proc[p].rootfsDir, "", {}, ok))
         /\ proc' = [proc EXCEPT ![p] =
                IF ExitIfError(ok) THEN Fatal(@, "unzipRootFsTarball(): os.MkdirAll()")
                ELSE [@ EXCEPT !.pc = After("unzip_mkdir")]]
    /\ UNCHANGED <<user, hostname, mounts, root, propagation, nextPid>>

\* unzipRootFsTarball: tar -xzf src -C dest; then mountedVolumes is made
UnzipTar(p) ==
    /\ proc[p].pc = "unzip_tar"
    /\ \E ok \in BOOLEAN :
         /\ trace' = Append(trace, Event(p, "tar", rootFsTarball, proc[p].rootfsDir, "", {}, ok))
         /\ proc' = [proc EXCEPT ![p] =
                IF ExitIfError(ok) THEN Fatal(@, "unzipRootFsTarball(): tar cmd.Run()")
                ELSE [@ EXCEPT !.pc = After("unzip_tar"), !.i = 1,
                               !.mountedVolumes = [k \in 1..Len(proc[p].volumes) |-> <<>>]]]
    /\ UNCHANGED <<user, hostname, mounts, root, propagation, nextPid>>

\* the mount namespaces a mount made in n shows up in: n, and every created
\* namespace that is a shared peer of it
Peers(n) ==
    {m \in Namespaces : m = n \/ (propagation[n] = "shared" /\ propagation[m] = "shared")}

\* the mount tables after a successful mount(2) of m by a process in n
Mounted(n, m) == [k \in Namespaces |-> IF k \in Peers(n) THEN Append(mounts[k], m) ELSE mounts[k]]

\* len(parts) != 2 is rejected
ValidMapping(parts) == Len(parts) = 2

\* the volume loop: its condition, strings.Split and the check of len(parts);
\* after the last volume the unmounting is deferred
VolumeSplit(p) ==
    /\ proc[p].pc = "volumes"
    /\ LET pr == proc[p]
           parts == Split(pr.volumes[pr.i], ":")
       IN  IF pr.i > Len(pr.volumes)
           THEN /\ proc' = [proc EXCEPT ![p].pc = After("volumes"),
                                        ![p].deferred = Append(@, "unmount_volumes")]
                /\ trace' = trace
           ELSE /\ trace' = Append(trace, Event(p, "split", pr.volumes[pr.i], <<>>, "", {},
                                                ValidMapping(parts)))
                /\ proc' = [proc EXCEPT ![p] =
                       IF ~ValidMapping(parts) THEN Fatal(pr, "invalid volume mapping")
                       ELSE [pr EXCEPT !.parts = parts, !.pc = "vol_mkdir"]]
    /\ UNCHANGED <<user, hostname, mounts, root, propagation, nextPid>>

\* source := parts[0]
VolumeSource(parts) == parts[1]

\* target := filepath.Join(rootfsDir, parts[1])
VolumeTarget(rootfsDir, parts) == Join(rootfsDir, parts[2])

\* os.MkdirAll(target, 0700)
VolumeMkdir(p) ==
    /\ proc[p].pc = "vol_mkdir"
    /\ \E ok \in BOOLEAN :
         LET pr == proc[p]
         IN  /\ trace' = Append(trace, Event(p, "mkdirall", <<>>,
                                             VolumeTarget(pr.rootfsDir, pr.parts), "", {}, ok))
             /\ proc' = [proc EXCEPT ![p] =
                    IF ExitIfError(ok) THEN Fatal(pr, "mkdir target")
                    ELSE [pr EXCEPT !.pc = "vol_mount"]]
    /\ UNCHANGED <<user, hostname, mounts, root, propagation, nextPid>>

BindFlags == {"MS_BIND", "MS_REC"}

\* syscall.Mount(source, target, "", MS_BIND|MS_REC, ""); mountedVolumes[i] = parts[1]
VolumeMount(p) ==
    /\ proc[p].pc = "vol_mount"
    /\ \E ok \in BOOLEAN :
         LET pr == proc[p]
             m == [source |-> VolumeSource(pr.parts),
                   target |-> VolumeTarget(pr.rootfsDir, pr.parts),
                   fstype |-> "", flags |-> BindFlags]
         IN  /\ trace' = Append(trace, Event(p, "mount", m.source, m.target, "", BindFlags, ok))
             /\ mounts' = IF ok THEN Mounted(pr.ns.mnt, m) ELSE mounts
             /\ proc' = [proc EXCEPT ![p] =
                    IF ExitIfError(ok) THEN Fatal(pr, "mount volume")
                    ELSE [pr EXCEPT !.mountedVolumes[pr.i] = pr.parts[2],
                                    !.i = pr.i + 1,
                                    !.pc = "volumes"]]
    /\ UNCHANGED <<user, hostname, root, propagation, nextPid>>

\* putOld := filepath.Join(newRoot, ".put_old")
PutOld(newRoot) == Join(newRoot, <<".put_old">>)

\* pivotRoot: syscall.Mount(newRoot, newRoot, "", MS_BIND|MS_REC, "")
PivotBindSelf(p) ==
    /\ proc[p].pc = "pivot_mount"
    /\ \E ok \in BOOLEAN :
         LET pr == proc[p]
             m == [source |-> pr.rootfsDir, target |-> pr.rootfsDir,
                   fstype |-> "", flags |-> BindFlags]
         IN  /\ trace' = Append(trace, Event(p, "mount", m.source, m.target, "", BindFlags, ok))
             /\ mounts' = IF ok THEN Mounted(pr.ns.mnt, m) ELSE mounts
             /\ proc' = [proc EXCEPT ![p] =
                    IF ExitIfError(ok) THEN Fatal(pr, "pivotRoot(): syscall.Mount")
                    ELSE [pr EXCEPT !.pc = After("pivot_mount")]]
    /\ UNCHANGED <<user, hostname, root, propagation, nextPid>>

\* pivotRoot: os.MkdirAll(putOld, 0700)
PivotMkdir(p) ==
    /\ proc[p].pc = "pivot_mkdir"
    /\ \E ok \in BOOLEAN :
         LET pr == proc[p]
         IN  /\ trace' = Append(trace, Event(p, "mkdirall", <<>>, PutOld(pr.rootfsDir), "", {}, ok))
             /\ proc' = [proc EXCEPT ![p] =
                    IF ExitIfError(ok) THEN Fatal(pr, "pivotRoot(): putold os.MkdirAll")
                    ELSE [pr EXCEPT !.pc = After("pivot_mkdir")]]
    /\ UNCHANGED <<user, hostname, mounts, root, propagation, nextPid>>

\* pivotRoot: syscall.PivotRoot(newRoot, putOld): newRoot becomes the root of
\* the mount namespace and the old root is mounted at putOld
PivotRootCall(p) ==
    /\ proc[p].pc = "pivot_root"
    /\ \E ok \in BOOLEAN :
         LET pr == proc[p]
             n == pr.ns.mnt
             old == [source |-> root[n], target |-> PutOld(pr.rootfsDir),
                     fstype |-> "", flags |-> {"old_root"}]
         IN  /\ trace' = Append(trace, Event(p, "pivot_root", pr.rootfsDir,
                                             PutOld(pr.rootfsDir), "", {}, ok))
             /\ root' = IF ok THEN [root EXCEPT ![n] = pr.rootfsDir] ELSE root
             /\ mounts' = IF ok THEN [mounts EXCEPT ![n] = Append(@, old)] ELSE mounts
             /\ proc' = [proc EXCEPT ![p] =
                    IF ExitIfError(ok) THEN Fatal(pr, "pivotRoot(): pivot_root")
                    ELSE [pr EXCEPT !.pc = After("pivot_root")]]
    /\ UNCHANGED <<user, hostname, propagation, nextPid>>

\* pivotRoot: syscall.Chdir("/")
PivotChdir(p) ==
    /\ proc[p].pc = "pivot_chdir"
    /\ \E ok \in BOOLEAN :
         LET pr == proc[p]
         IN  /\ trace' = Append(trace, Event(p, "chdir", <<>>, <<"/">>, "", {}, ok))
             /\ proc' = [proc EXCEPT ![p] =
                    IF ExitIfError(ok) THEN Fatal(pr, "chdir")
                    ELSE [pr EXCEPT !.cwd = <<"/">>, !.pc = After("pivot_chdir")]]
    /\ UNCHANGED <<user, hostname, mounts, root, propagation, nextPid>>

\* syscall.Mount("proc", "/proc", "proc", 0, ""); defer syscall.Unmount("/proc", 0)
MountProcfs(p) ==
    /\ proc[p].pc = "procfs"
    /\ \E ok \in BOOLEAN :
         LET pr == proc[p]
             m == [source |-> <<"proc">>, target |-> <<"/", "proc">>,
                   fstype |-> "proc", flags |-> {}]
         IN  /\ trace' = Append(trace, Event(p, "mount", m.source, m.target, "proc", {}, ok))
             /\ mounts' = IF ok THEN Mounted(pr.ns.mnt, m) ELSE mounts
             /\ proc' = [proc EXCEPT ![p] =
                    IF ExitIfError(ok) THEN Fatal(pr, "mount procfs")
                    ELSE [pr EXCEPT !.deferred = Append(@, "unmount_proc"),
                                    !.pc = After("procfs")]]
    /\ UNCHANGED <<user, hostname, root, propagation, nextPid>>

(***************************************************************************)
(* cmd.Run() in the child, the user command, and os.Exit                   *)
(***************************************************************************)
\* the pid the command would have if it replaced the image of the latest
\* process of the namespace (syscall.Exec) instead of being forked
ExecPid(pidns) == nextPid[pidns] - 1

\* the pid of a process created by fork/exec in a PID namespace
ForkPid(pidns) == nextPid[pidns]

\* cmd.Run() in the child, first half: the user command is started as a new
\* process, or cannot be started (no such executable in the new root)
StartUserCommand(p) ==
    /\ proc[p].pc = "start"
    /\ proc[p].isChild
    /\ user.state = "none"
    /\ \E found \in BOOLEAN :
         LET pr == proc[p]
         IN  /\ trace' = Append(trace, Event(p, "start", pr.commandName, <<>>, "", {}, found))
             /\ IF found
                THEN /\ user' = [state |-> "running", parent |-> p,
                                 pid |-> ForkPid(pr.ns.pid), ns |-> pr.ns.pid,
                                 name |-> pr.commandName, status |-> NilProcessState]
                     /\ nextPid' = [nextPid EXCEPT ![pr.ns.pid] = @ + 1]
                     /\ proc' = [proc EXCEPT ![p].pc = "wait"]
                ELSE /\ proc' = [proc EXCEPT ![p].pc = "exit"]
                     /\ UNCHANGED <<user, nextPid>>
    /\ UNCHANGED <<hostname, mounts, root, propagation>>

\* the user command ends: it exits with a code, or a signal kills it
UserCommandEnds ==
    /\ user.state = "running"
    /\ \E st \in {[kind |-> "exited", code |-> c] : c \in ExitCodes}
                 \cup {[kind |-> "signaled", code |-> 0]} :
         user' = [user EXCEPT !.state = "ended", !.status = st]
    /\ UNCHANGED <<proc, hostname, mounts, root, propagation, nextPid, trace>>

\* cmd.Run() in the child, second half: wait for the user command
WaitUser(p) ==
    /\ proc[p].pc = "wait"
    /\ proc[p].isChild
    /\ user.parent = p
    /\ user.state = "ended"
    /\ proc' = [proc EXCEPT ![p].pc = "exit", ![p].processState = user.status]
    /\ UNCHANGED <<user, hostname, mounts, root, propagation, nextPid, trace>>

\* the deferred functions that os.Exit runs: none ("The program terminates
\* immediately; deferred functions are not run")
DeferredRunByExit(deferred) == <<>>

\* what the deferred functions issue, last deferred first: the unmount of
\* /proc, and the unmounts of mountedVolumes in order
RECURSIVE UnmountEvents(_, _, _)
UnmountEvents(p, deferred, mountedVolumes) ==
    IF deferred = <<>> THEN <<>>
    ELSE LET f == deferred[Len(deferred)]
             rest == UnmountEvents(p, SubSeq(deferred, 1, Len(deferred) - 1), mountedVolumes)
         IN  IF f = "unmount_proc"
             THEN <<Event(p, "unmount", <<>>, <<"/", "proc">>, "", {}, TRUE)>> \o rest
             ELSE [k \in 1..Len(mountedVolumes) |->
                     Event(p, "unmount", <<>>, mountedVolumes[k], "", {}, TRUE)] \o rest

\* os.Exit(cmd.ProcessState.ExitCode())
Exit(p) ==
    /\ proc[p].pc = "exit"
    /\ LET pr == proc[p]
       IN  /\ trace' = trace \o UnmountEvents(p, DeferredRunByExit(pr.deferred), pr.mountedVolumes)
           /\ proc' = [proc EXCEPT ![p].pc = "exited",
                                   ![p].exitCode = ExitStatus(ExitCode(pr.processState))]
    /\ UNCHANGED <<user, hostname, mounts, root, propagation, nextPid>>

Next ==
    \/ \E p \in Procs : GoInit(p)
    \/ \E p \in Procs : Main(p)
    \/ \E p \in Procs : Ps(p)
    \/ \E p \in Procs : RunEntry(p)
    \/ \E p \in Procs : SpawnChild(p)
    \/ \E p \in Procs : WaitChild(p)
    \/ \E p \in Procs : SetHostname(p)
    \/ \E p \in Procs : UnzipMkdir(p)
    \/ \E p \in Procs : UnzipTar(p)
    \/ \E p \in Procs : VolumeSplit(p)
    \/ \E p \in Procs : VolumeMkdir(p)
    \/ \E p \in Procs : VolumeMount(p)
    \/ \E p \in Procs : PivotBindSelf(p)
    \/ \E p \in Procs : PivotMkdir(p)
    \/ \E p \in Procs : PivotRootCall(p)
    \/ \E p \in Procs : PivotChdir(p)
    \/ \E p \in Procs : MountProcfs(p)
    \/ \E p \in Procs : StartUserCommand(p)
    \/ UserCommandEnds
    \/ \E p \in Procs : WaitUser(p)
    \/ \E p \in Procs : Exit(p)

Spec == Init /\ [][Next]_vars

\* every syscall, the extraction and the user command return: a process that
\* can take its next step takes it
FairSpec == Spec /\ WF_vars(Next)

(***************************************************************************)
(* Two invocations at once: the children of two launchers that ran in the  *)
(* same working directory, each in the namespaces its launcher created,    *)
(* each from func init() to the root switch                                *)
(***************************************************************************)
\* the namespaces of the child of each invocation
PairNs(p) ==
    IF p = "p0" THEN [uts |-> "new", pid |-> "new", mnt |-> "new"]
    ELSE [uts |-> "new2", pid |-> "new2", mnt |-> "new2"]

\* the argument list each launcher passes on: a command and no volume
PairLines == { ReexecArgs(<<>>, << <<"sh">> >>) }

PairInit ==
    /\ \E l0, l1 \in PairLines :
         proc = [p \in Procs |-> NewProc("init", IF p = "p0" THEN l0 ELSE l1, PairNs(p), 1)]
    /\ user = NoUser
    /\ hostname = [n \in Namespaces |-> HostName]
    /\ mounts = [n \in Namespaces |-> <<HostRootMount>>]
    /\ root = [n \in Namespaces |-> <<"/">>]
    /\ propagation = [n \in Namespaces |->
                        IF n = "host" THEN HostPropagation
                        ELSE ChildPropagation(Unshareflags, HostPropagation)]
    /\ nextPid = [n \in Namespaces |-> IF n = "host" THEN 103 ELSE 2]
    /\ trace = <<>>

PairNext ==
    \/ \E p \in Procs : GoInit(p)
    \/ \E p \in Procs : Main(p)
    \/ \E p \in Procs : RunEntry(p)
    \/ \E p \in Procs : SetHostname(p)
    \/ \E p \in Procs : UnzipMkdir(p)
    \/ \E p \in Procs : UnzipTar(p)
    \/ \E p \in Procs : VolumeSplit(p)
    \/ \E p \in Procs : PivotBindSelf(p)
    \/ \E p \in Procs : PivotMkdir(p)
    \/ \E p \in Procs : PivotRootCall(p)

PairSpec == PairInit /\ [][PairNext]_vars

(***************************************************************************)
(* Vocabulary of the properties                                            *)
(***************************************************************************)
\* the invocation is `focker run ...`: p0 is the Launcher, p1 the Child Bootstrap
InvokedAsRun == proc["p0"].osArgs # <<>> /\ proc["p0"].osArgs[1] = <<"run">>

\* what process p has issued so far, in order
TraceOf(p) == SelectSeq(trace, LAMBDA e : e.proc = p)

Exited(p) == proc[p].pc = "exited"

\* the user command was started and ended by exiting with a code
UserExitedNormally == user.state = "ended" /\ user.status.kind = "exited"

\* the position of each bootstrap statement in the order the specification gives:
\* hostname, extraction (mkdir, tar), volumes, the four sub-steps of the root
\* switch, procfs, the user command
StepRank(step) ==
    CASE step = "sethostname" -> 1
      [] step = "unzip_mkdir" -> 2
      [] step = "unzip_tar" -> 3
      [] step \in {"volumes", "vol_mkdir", "vol_mount"} -> 4
      [] step = "pivot_mount" -> 5
      [] step = "pivot_mkdir" -> 6
      [] step = "pivot_root" -> 7
      [] step = "pivot_chdir" -> 8
      [] step = "procfs" -> 9
      [] step = "start" -> 10
      [] OTHER -> 0

\* the bootstrap steps process p has issued, in order (the Launcher's clone of
\* the program is no bootstrap step)
BootstrapTrace(p) ==
    SelectSeq(trace, LAMBDA e : e.proc = p /\ StepRank(e.step) > 0 /\ e.op # "clone")

\* the successful bind mounts of volumes by p, in order
VolumeMounts(p) == SelectSeq(trace, LAMBDA e : e.proc = p /\ e.step = "vol_mount" /\ e.ok)

(***************************************************************************)
(* C1: when every bootstrap step succeeds and the user command starts and  *)
(* exits normally with code c, the Child Bootstrap exits with c and the    *)
(* Launcher exits with c.                                                  *)
(***************************************************************************)
C1_ExitCodePropagates ==
    (InvokedAsRun /\ UserExitedNormally) =>
        /\ Exited("p1") => proc["p1"].exitCode = user.status.code
        /\ Exited("p0") => proc["p0"].exitCode = user.status.code

C1_Witness ==
    /\ InvokedAsRun /\ UserExitedNormally
    /\ user.status.code = 255
    /\ Len(VolumeMounts("p1")) = 1
    /\ Exited("p1") /\ Exited("p0")
    /\ proc["p0"].exitCode = 255

(***************************************************************************)
(* C2: the Child Bootstrap issues its steps in the order: set hostname to  *)
(* the generated identity, extract the archive into containers/<identity>, *)
(* bind-mount every volume, self bind mount, create .put_old, pivot_root,  *)
(* chdir to /, mount procfs at /proc, start the user command.  No step is  *)
(* issued before every earlier one has completed successfully.             *)
(***************************************************************************)
C2_StrictOrder ==
    \A p \in Procs :
        LET t == BootstrapTrace(p)
            mounted == Len(VolumeMounts(p))
        IN  \A j \in 1..Len(t) :
              LET r == StepRank(t[j].step)
                  q == IF j = 1 THEN 0 ELSE StepRank(t[j - 1].step)
              IN  \* the step before has completed, successfully
                  /\ j > 1 => t[j - 1].ok
                  \* the step is the one before again (only among the volumes'
                  \* steps) or the next one; the volumes are skipped only
                  \* when there are none
                  /\ r = q => r = 4
                  /\ \/ r \in {q, q + 1}
                     \/ q = 3 /\ r = 5 /\ proc[p].volumes = <<>>
                  /\ r > 4 => mounted = Len(proc[p].volumes)
                  \* on the identity and the paths the specification names
                  /\ t[j].step = "sethostname" /\ t[j].ok => t[j].target = proc[p].containerId
                  /\ t[j].step = "unzip_tar" =>
                        t[j].target = <<"containers", "/">> \o proc[p].containerId
                  /\ t[j].step = "pivot_root" =>
                        /\ t[j].source = <<"containers", "/">> \o proc[p].containerId
                        /\ t[j].target = t[j].source \o <<"/", ".put_old">>
                  /\ t[j].step = "procfs" =>
                        t[j].target = <<"/", "proc">> /\ t[j].fstype = "proc"

C2_Witness ==
    /\ InvokedAsRun
    /\ Len(VolumeMounts("p1")) = 2
    /\ \E j \in 1..Len(trace) : trace[j].proc = "p1" /\ trace[j].step = "start" /\ trace[j].ok

(***************************************************************************)
(* C3: if any volume mapping string of the list does not split on ":" into *)
(* exactly two components, no bind mount is issued for any mapping of the  *)
(* list, the well-formed ones before the malformed one included.           *)
(***************************************************************************)
Malformed(volume) == Len(Split(volume, ":")) # 2

C3_NoMountOnMalformedList ==
    \A p \in Procs :
        (\E k \in 1..Len(proc[p].volumes) : Malformed(proc[p].volumes[k]))
            => ~\E j \in 1..Len(trace) :
                    /\ trace[j].proc = p
                    /\ trace[j].op = "mount"
                    /\ "MS_BIND" \in trace[j].flags

(***************************************************************************)
(* C4: when the invocation succeeds and the user command completes, the    *)
(* Child Bootstrap has, by the time it has exited, issued one unmount per  *)
(* successful volume bind mount, on exactly the entries of mountedVolumes, *)
(* in the order of the mounts.                                             *)
(***************************************************************************)
\* the targets of the volume unmounts p has issued, in order
RECURSIVE Targets(_)
Targets(events) ==
    IF events = <<>> THEN <<>> ELSE <<Head(events).target>> \o Targets(Tail(events))

VolumeUnmounts(p) ==
    Targets(SelectSeq(trace, LAMBDA e : e.proc = p /\ e.op = "unmount"
                                        /\ e.target # <<"/", "proc">>))

C4_UnmountsMatchMounts ==
    \A p \in Procs :
        (proc[p].isChild /\ Exited(p) /\ user.parent = p /\ user.state = "ended")
            => /\ Len(VolumeUnmounts(p)) = Len(VolumeMounts(p))
               /\ VolumeUnmounts(p) = proc[p].mountedVolumes

(***************************************************************************)
(* C5 (as stated): from the moment the user command runs it is the         *)
(* bootstrap process itself, with the same PID; no separate bootstrap      *)
(* process exists alongside it.                                            *)
(***************************************************************************)
C5_ImageReplaced ==
    user.state = "running" =>
        /\ user.pid = proc[user.parent].pid
        /\ proc[user.parent].pc \notin {"wait", "exit"}

(***************************************************************************)
(* C5 (amended): after steps 1-5 succeed the Child Bootstrap starts the    *)
(* user command as a new process of its PID namespace with a PID of its    *)
(* own, and stays alive next to it, waiting in cmd.Run() until it ends.    *)
(***************************************************************************)
C5_ForkedAndWaited ==
    user.state = "running" =>
        /\ user.pid # proc[user.parent].pid
        /\ user.ns = proc[user.parent].ns.pid
        /\ proc[user.parent].pc = "wait"
        /\ Len(BootstrapTrace(user.parent)) >= 9

C5_Witness ==
    /\ InvokedAsRun
    /\ user.state = "running"
    /\ user.parent = "p1"
    /\ proc["p1"].pid = 1
    /\ user.pid = 2

(***************************************************************************)
(* C6: when one of the bootstrap steps 1-5 fails (hostname, extraction,    *)
(* volume validation, mkdir or bind mount, a root-switch sub-step, the     *)
(* procfs mount), the child has terminated with a non-zero code, it issues *)
(* no later step, the user command is never started by it, and the         *)
(* Launcher, once it has exited, has exited with a non-zero code.          *)
(***************************************************************************)
\* a failed event of steps 1-5
FailedBootstrapStep(e) == ~e.ok /\ StepRank(e.step) \in 1..9

C6_FailureAborts ==
    \A p \in Procs :
        LET t == TraceOf(p)
        IN  \A j \in 1..Len(t) :
              FailedBootstrapStep(t[j]) =>
                  /\ j = Len(t)
                  /\ Exited(p)
                  /\ proc[p].exitCode # 0
                  /\ ~(user.state # "none" /\ user.parent = p)
                  /\ (InvokedAsRun /\ p = "p1" /\ Exited("p0")) => proc["p0"].exitCode # 0

C6_Witness ==
    /\ InvokedAsRun
    /\ Exited("p1") /\ Exited("p0")
    /\ proc["p0"].exitCode = 1
    /\ Len(VolumeMounts("p1")) = 1
    /\ \E j \in 1..Len(trace) :
          trace[j].proc = "p1" /\ trace[j].step = "pivot_root" /\ ~trace[j].ok

(***************************************************************************)
(* C7: over a `run` invocation, whatever its outcome, the hostname, the    *)
(* mount table and the root of the host's namespaces stay what they were;  *)
(* the child lives in new UTS, PID and mount namespaces, created with      *)
(* CLONE_NEWUTS|CLONE_NEWPID|CLONE_NEWNS, and its mount namespace is       *)
(* private.                                                                *)
(***************************************************************************)
C7_HostUnchanged ==
    InvokedAsRun =>
        /\ hostname["host"] = HostName
        /\ mounts["host"] = <<HostRootMount>>
        /\ root["host"] = <<"/">>
        /\ proc["p1"].pc # "unborn" =>
              /\ proc["p1"].ns = [uts |-> "new", pid |-> "new", mnt |-> "new"]
              /\ propagation["new"] = "private"
              /\ \E j \in 1..Len(trace) :
                    /\ trace[j].op = "clone"
                    /\ trace[j].flags = {"CLONE_NEWUTS", "CLONE_NEWPID", "CLONE_NEWNS"}

C7_Witness ==
    /\ InvokedAsRun
    /\ Exited("p0")
    /\ hostname["new"] = proc["p1"].containerId
    /\ hostname["new"] # hostname["host"]
    /\ root["new"] # root["host"]
    /\ Len(mounts["new"]) = 6

(***************************************************************************)
(* C8: in an execution started with `run`, the Launcher (p0) issues no     *)
(* sethostname, mount, pivot_root, chroot or chdir and stays in the host's *)
(* namespaces; these operations are issued only by the re-executed _child  *)
(* process.                                                                *)
(***************************************************************************)
KernelOps == {"sethostname", "mount", "unmount", "pivot_root", "chroot", "chdir"}

C8_LauncherIssuesNoKernelOp ==
    InvokedAsRun =>
        /\ proc["p0"].ns = HostNs
        /\ \A j \in 1..Len(trace) :
              trace[j].op \in KernelOps =>
                  /\ trace[j].proc = "p1"
                  /\ proc["p1"].isChild
                  /\ proc["p1"].osArgs[1] = <<"_child">>

C8_Witness ==
    /\ InvokedAsRun
    /\ Exited("p0")
    /\ \E j \in 1..Len(trace) : trace[j].op = "pivot_root" /\ trace[j].ok
    /\ \E j \in 1..Len(trace) : trace[j].op = "sethostname" /\ trace[j].ok

(***************************************************************************)
(* C9 (as stated): the code the invocation exits with when the user        *)
(* command cannot be started is one that no user command that did start    *)
(* can make the invocation exit with.                                      *)
(***************************************************************************)
\* the user command could not be started by p
StartFailed(p) ==
    \E j \in 1..Len(trace) : trace[j].proc = p /\ trace[j].op = "start" /\ ~trace[j].ok

\* the status of an invocation whose user command could not be started
StartupFailureCode == ExitStatus(ExitCode(NilProcessState))

C9_StartupCodeDistinct ==
    (InvokedAsRun /\ Exited("p0"))
        => /\ StartFailed("p1") => proc["p0"].exitCode # 0
           /\ UserExitedNormally => proc["p0"].exitCode # StartupFailureCode

(***************************************************************************)
(* C9 (amended): when the user command cannot be started the child and the *)
(* Launcher exit with the non-zero code 255; a user command that did start *)
(* can report the same code.                                               *)
(***************************************************************************)
C9_StartupFailureIs255 ==
    (InvokedAsRun /\ StartFailed("p1"))
        => /\ user.state = "none"
           /\ Exited("p1") => proc["p1"].exitCode = 255
           /\ Exited("p0") => proc["p0"].exitCode = 255

C9_Witness ==
    /\ InvokedAsRun
    /\ StartFailed("p1")
    /\ Exited("p0")
    /\ proc["p0"].exitCode = 255

(***************************************************************************)
(* C10: every volume mapping for which a directory is created or a bind    *)
(* mount is attempted has exactly two components, both non-empty.          *)
(***************************************************************************)
TwoNonEmptyComponents(parts) == Len(parts) = 2 /\ parts[1] # <<>> /\ parts[2] # <<>>

C10_MappingsNonEmpty ==
    \A p \in Procs :
        proc[p].pc \in {"vol_mkdir", "vol_mount"} => TwoNonEmptyComponents(proc[p].parts)

(***************************************************************************)
(* C11: from the moment the user command is started, the old (host) root   *)
(* is no longer mounted at .put_old of the new root.                       *)
(***************************************************************************)
\* the old root is mounted in the mount namespace of process p
OldRootMounted(p) ==
    \E k \in 1..Len(mounts[proc[p].ns.mnt]) :
        "old_root" \in mounts[proc[p].ns.mnt][k].flags

C11_OldRootRetired ==
    user.state # "none" => ~OldRootMounted(user.parent)

(***************************************************************************)
(* C12: the generated identity is "b-" followed by exactly 16 characters   *)
(* of [a-zA-Z0-9], and the identity set as hostname in step 1 is the name  *)
(* of the directory under containers/ that step 2 provisions.              *)
(***************************************************************************)
Alphanumeric ==
    { "a", "b", "c", "d", "e", "f", "g", "h", "i", "j", "k", "l", "m",
      "n", "o", "p", "q", "r", "s", "t", "u", "v", "w", "x", "y", "z",
      "A", "B", "C", "D", "E", "F", "G", "H", "I", "J", "K", "L", "M",
      "N", "O", "P", "Q", "R", "S", "T", "U", "V", "W", "X", "Y", "Z",
      "0", "1", "2", "3", "4", "5", "6", "7", "8", "9" }

IdentityWellFormed(id) ==
    /\ Len(id) = 18
    /\ id[1] = "b" /\ id[2] = "-"
    /\ \A k \in 3..18 : id[k] \in Alphanumeric

C12_IdentityFormatAndUse ==
    \A p \in Procs :
        LET t == BootstrapTrace(p)
        IN  \A j \in 1..Len(t) :
              /\ t[j].step = "sethostname" =>
                    /\ IdentityWellFormed(t[j].target)
                    /\ t[j].ok => hostname[proc[p].ns.uts] = t[j].target
              /\ t[j].step \in {"unzip_mkdir", "unzip_tar"} =>
                    /\ t[1].step = "sethostname"
                    /\ t[j].target = <<"containers", "/">> \o t[1].target

C12_Witness ==
    /\ InvokedAsRun
    /\ \E j \in 1..Len(trace) :
          trace[j].proc = "p1" /\ trace[j].step = "unzip_tar" /\ trace[j].ok
    /\ hostname["new"] = proc["p1"].containerId
    /\ proc["p1"].rootfsDir = <<"containers", "/">> \o hostname["new"]
    /\ hostname["new"] # ContainerId(0)

(***************************************************************************)
(* C13 (as stated): a `run` invocation without a command (no arguments, or *)
(* only -v= tokens) ends in a fatal error before any kernel or filesystem  *)
(* state is touched: no process, no directory, no hostname, mount or       *)
(* root-switch operation.                                                  *)
(***************************************************************************)
\* the token begins with -v=
IsVolumeToken(t) == Len(t) >= 3 /\ t[1] = "-" /\ t[2] = "v" /\ t[3] = "="

\* `focker run` followed by nothing but -v= tokens
RunWithoutCommand ==
    /\ InvokedAsRun
    /\ \A k \in 2..Len(proc["p0"].osArgs) : IsVolumeToken(proc["p0"].osArgs[k])

KernelStateUntouched ==
    /\ hostname["host"] = HostName
    /\ mounts = [n \in Namespaces |-> IF n = "host" THEN <<HostRootMount>> ELSE <<>>]
    /\ root = [n \in Namespaces |-> <<"/">>]
    /\ proc["p1"].pc = "unborn"
    /\ user.state = "none"

C13_NothingTouched ==
    RunWithoutCommand =>
        /\ KernelStateUntouched
        /\ trace = <<>>
        /\ Exited("p0") => proc["p0"].exitCode # 0

(***************************************************************************)
(* C13 (amended): such an invocation ends in a fatal error (status 1)      *)
(* after func init() has created the containers directory with MkdirAll;   *)
(* that is the only operation issued: no process is created, no other      *)
(* directory is created, and no hostname, mount or root-switch operation   *)
(* is issued.                                                              *)
(***************************************************************************)
C13_OnlyContainersDirCreated ==
    RunWithoutCommand =>
        /\ KernelStateUntouched
        /\ Len(trace) <= 1
        /\ \A j \in 1..Len(trace) :
              /\ trace[j].proc = "p0"
              /\ trace[j].step = "init"
              /\ trace[j].op = "mkdirall"
              /\ trace[j].target = <<".", "/", "containers">>
        /\ proc["p0"].pc \in {"init", "main", "run", "exited"}
        /\ Exited("p0") => proc["p0"].exitCode = 1 /\ proc["p0"].fatal # ""

C13_Witness ==
    /\ RunWithoutCommand
    /\ Len(proc["p0"].osArgs) = 3
    /\ Exited("p0")
    /\ proc["p0"].fatal = "at least 1 argument is required"
    /\ Len(trace) = 1 /\ trace[1].ok

(***************************************************************************)
(* C14: round trip across the re-exec: the command, the command arguments  *)
(* and the volume mappings that the _child process parses from the         *)
(* argument list the Launcher built equal, element for element and in      *)
(* order, those the Launcher parsed from its own arguments.                *)
(***************************************************************************)
\* process p has parsed its arguments in main()
Parsed(p) == proc[p].pc \notin {"unborn", "init", "main"} /\ proc[p].fatal # "init containersDir"

C14_ReexecRoundTrip ==
    (InvokedAsRun /\ Parsed("p1")) =>
        /\ proc["p1"].osArgs[1] = <<"_child">>
        /\ proc["p1"].volumes = proc["p0"].volumes
        /\ proc["p1"].args = proc["p0"].args
        /\ proc["p1"].args # <<>>
        /\ proc["p1"].pc \notin {"run", "exited"} =>
              /\ proc["p1"].commandName = proc["p0"].args[1]
              /\ proc["p1"].commandArgs = Tail(proc["p0"].args)

C14_Witness ==
    /\ InvokedAsRun
    /\ proc["p1"].pc = "sethostname"
    /\ Len(proc["p0"].volumes) = 1
    /\ Len(proc["p0"].args) = 2
    /\ proc["p1"].volumes = proc["p0"].volumes

(***************************************************************************)
(* C15: whenever the Child Bootstrap has exited after bind-mounting        *)
(* volumes, an abort by a failing root-switch step or procfs mount         *)
(* included, it has issued an unmount for every volume it mounted, in      *)
(* mount order.                                                            *)
(***************************************************************************)
\* the in-container targets p has recorded for the volumes it mounted
MountedVolumeSet(p) == SubSeq(proc[p].mountedVolumes, 1, Len(VolumeMounts(p)))

C15_UnmountOnEveryExit ==
    \A p \in Procs :
        (InvokedAsRun /\ Exited(p) /\ Len(VolumeMounts(p)) > 0)
            => \A k \in 1..Len(VolumeMounts(p)) :
                  /\ Len(VolumeUnmounts(p)) >= k
                  /\ VolumeUnmounts(p)[k] = MountedVolumeSet(p)[k]

(***************************************************************************)
(* C17: for every accepted volume mapping, the directory that is created   *)
(* and used as the bind-mount target is the provisioned root               *)
(* containers/<identity> or lies below it, whatever the target component   *)
(* is, ".." included.                                                      *)
(***************************************************************************)
\* path is dir or a descendant of it
IsWithin(path, dir) ==
    \/ path = dir
    \/ /\ Len(path) > Len(dir) + 1
       /\ SubSeq(path, 1, Len(dir)) = dir
       /\ path[Len(dir) + 1] = "/"
       /\ \A k \in (Len(dir) + 2)..Len(path) : path[k] # ".."

C17_TargetInsideRoot ==
    \A j \in 1..Len(trace) :
        (InvokedAsRun /\ trace[j].step \in {"vol_mkdir", "vol_mount"}) =>
            IsWithin(trace[j].target, <<"containers", "/">> \o proc[trace[j].proc].containerId)

(***************************************************************************)
(* C18: however the program is invoked, `_child` given directly included,  *)
(* sethostname, the bind mounts, pivot_root and the procfs mount are       *)
(* issued only by a process created by a Launcher with new UTS, PID and    *)
(* mount namespaces, never in the invoker's own namespaces.                *)
(***************************************************************************)
C18_BootstrapOnlyInNewNamespaces ==
    \A j \in 1..Len(trace) :
        trace[j].op \in {"sethostname", "mount", "pivot_root"} =>
            /\ trace[j].proc = "p1"
            /\ proc["p1"].ns = [uts |-> "new", pid |-> "new", mnt |-> "new"]
            /\ \E i \in 1..(j - 1) : trace[i].proc = "p0" /\ trace[i].op = "clone" /\ trace[i].ok

(***************************************************************************)
(* C19: every token of the `run` argument list that begins with -v= is     *)
(* taken as a volume mapping wherever it stands, after the command name    *)
(* too, and the user command is executed with exactly the remaining tokens *)
(* after the command name, in their original order.                        *)
(***************************************************************************)
\* the tokens typed after `run`
TypedTokens == Tail(proc["p0"].osArgs)

\* the token without its first three characters
AfterFlag(t) == SubSeq(t, 4, Len(t))

RECURSIVE Mappings(_)
Mappings(events) ==
    IF events = <<>> THEN <<>> ELSE <<Head(events).source>> \o Mappings(Tail(events))

C19_VolumeTokensAnywhere ==
    (InvokedAsRun /\ user.state # "none") =>
        LET typedVolumes == SelectSeq(TypedTokens, IsVolumeToken)
            typedWords == SelectSeq(TypedTokens, LAMBDA t : ~IsVolumeToken(t))
        IN  /\ Len(proc["p1"].volumes) = Len(typedVolumes)
            /\ \A k \in 1..Len(typedVolumes) :
                  proc["p1"].volumes[k] = AfterFlag(typedVolumes[k])
            \* each of them was handled as a mapping by the volume loop
            /\ Mappings(SelectSeq(trace, LAMBDA e : e.proc = "p1" /\ e.step = "volumes"))
                  = proc["p1"].volumes
            \* the command and its arguments are the other tokens
            /\ user.name = typedWords[1]
            /\ proc["p1"].commandArgs = Tail(typedWords)

C19_Witness ==
    /\ InvokedAsRun
    /\ user.state = "running"
    /\ TypedTokens = << <<"sh">>, VolumeFlag \o <<"a", ":", "b">>, <<"x">> >>
    /\ proc["p1"].commandArgs = << <<"x">> >>

(***************************************************************************)
(* C20: provided every syscall, the extraction and the user command        *)
(* return, every `run` invocation terminates: the child, once created,     *)
(* reaches its exit, the Launcher exits, and the Launcher has not exited   *)
(* while a child it created has not.                                       *)
(***************************************************************************)
C20_RunTerminates ==
    /\ InvokedAsRun => <>Exited("p0")
    /\ [](InvokedAsRun /\ proc["p1"].pc # "unborn" => <>Exited("p1"))
    /\ [](InvokedAsRun /\ Exited("p0") /\ proc["p1"].pc # "unborn" => Exited("p1"))

C20_Witness ==
    /\ InvokedAsRun
    /\ Exited("p0") /\ Exited("p1")
    /\ Len(VolumeMounts("p1")) = 2
    /\ user.state = "ended"

(***************************************************************************)
(* C16: of two invocations, neither provisions, extracts into, mounts onto *)
(* or pivots into the containers/<identity> directory that the other       *)
(* created: the two provisioned root directories are distinct.             *)
(***************************************************************************)
\* the statements that write under the provisioned root or mount onto it
TreeSteps == {"unzip_mkdir", "unzip_tar", "pivot_mount", "pivot_mkdir", "pivot_root"}

C16_DistinctRoots ==
    \A i, j \in 1..Len(trace) :
        (/\ trace[i].proc # trace[j].proc
         /\ trace[i].step = "unzip_mkdir" /\ trace[i].ok
         /\ trace[j].step \in TreeSteps)
            => ~IsWithin(trace[j].target, trace[i].target)

====
